---- MODULE Spec2Model ----
(***************************************************************************)
(* Model of lambda_function.py: the ffmpeg silencedetect output scan of    *)
(* has_audio, the s3_object context manager and lambda_handler.            *)
(*                                                                         *)
(* Times are integers in hundredths of a second (3.0 s is 300).  Python's  *)
(* None is the empty tuple <<>> and a present value v is <<v>>.            *)
(* A line of the ffmpeg output is the result of the three regex searches   *)
(* on it: for each pattern, <<>> when it does not match, else the matched  *)
(* groups as tuples of characters.                                         *)
(***************************************************************************)
EXTENDS Integers, Sequences, FiniteSets, TLC

VARIABLES
    pc,             \* position of lambda_handler
    event,          \* the request: the keys of event["body"] and key_name
    resp,           \* the dict resp of lambda_handler
    exc,            \* the exception raised in this invocation, None when none was
    fs,             \* the local files under /tmp
    file_name,      \* s3_object's file_name, None before it is computed
    returncode,     \* p.returncode of detect_silence, None before it ran
    output,         \* the text returned by detect_silence, as lines
    idx,            \* number of lines of output the for-loop has consumed
    chunk_starts,   \* has_audio's chunk_starts
    chunk_ends,     \* has_audio's chunk_ends
    end_time,       \* has_audio's end_time
    noise_detected, \* has_audio's noise_detected
    ret,            \* the value has_audio returned, None before it returns
    response,       \* the value lambda_handler returned, None before
    calls,          \* successive calls of has_audio's parsing in one process
    conc            \* two invocations of lambda_handler sharing /tmp

\* the state of one invocation of lambda_handler
handler == <<pc, event, resp, exc, fs, file_name, returncode, output, idx,
             chunk_starts, chunk_ends, end_time, noise_detected, ret, response>>

vars == <<handler, calls, conc>>

None == <<>>

Some(v) == <<v>>

(***************************************************************************)
(* Bounds.                                                                 *)
(***************************************************************************)
MaxLines == 4

(***************************************************************************)
(* Program constants.                                                      *)
(***************************************************************************)
\* 10000000.0 seconds (line 99), in hundredths of a second
Sentinel == 1000000000

\* start_time = 0.0 (line 71)
start_time == 0

(***************************************************************************)
(* Number conversion: int() and float() on the text of a regex group.      *)
(***************************************************************************)
Digits == {"0", "1", "2", "3", "4", "5", "6", "7", "8", "9"}

DigitVal(c) ==
    CASE c = "0" -> 0 [] c = "1" -> 1 [] c = "2" -> 2 [] c = "3" -> 3
      [] c = "4" -> 4 [] c = "5" -> 5 [] c = "6" -> 6 [] c = "7" -> 7
      [] c = "8" -> 8 [] c = "9" -> 9

RECURSIVE IntOf(_)
\* the value of a string of decimal digits ("" is 0, for the text before
\* or after a decimal point)
IntOf(tok) ==
    IF Len(tok) = 0 THEN 0
    ELSE IntOf(SubSeq(tok, 1, Len(tok) - 1)) * 10 + DigitVal(tok[Len(tok)])

\* int(group) for a group of [0-9]{2}
ParseInt(tok) == IntOf(tok)

\* float(group) for a group over the characters [0-9.]: None stands for
\* ValueError (more than one point, or no digit), else the value in
\* hundredths.  The tokens of the model carry at most two fractional digits.
ParseFloat(tok) ==
    LET dots == {i \in 1..Len(tok) : tok[i] = "."} IN
    IF Cardinality(dots) > 1 \/ Cardinality(dots) = Len(tok) THEN None
    ELSE LET d  == IF dots = {} THEN Len(tok) + 1 ELSE CHOOSE i \in dots : TRUE
             ip == SubSeq(tok, 1, d - 1)
             fp == SubSeq(tok, d + 1, Len(tok))
             fr == IF Len(fp) = 0 THEN 0
                   ELSE IF Len(fp) = 1 THEN DigitVal(fp[1]) * 10
                   ELSE DigitVal(fp[1]) * 10 + DigitVal(fp[2])
         IN Some(IntOf(ip) * 100 + fr)

(***************************************************************************)
(* The lines of the ffmpeg output.                                         *)
(***************************************************************************)
\* groups "start" of SILENCE_START_RE: [0-9]+(\.?[0-9]*)
StartTokens == { <<"3">> }

\* groups "end" of SILENCE_END_RE
EndTokens == { <<"2">>, <<"4", ".", "2", "5">> }

\* groups hours, minutes, seconds of TOTAL_DURATION_RE; seconds is any five
\* characters of [0-9.], so "1.2.3" matches
BadDuration == [hours |-> <<"0", "0">>, minutes |-> <<"0", "0">>,
                seconds |-> <<"1", ".", "2", ".", "3">>]

DurationGroups ==
    { [hours |-> <<"0", "0">>, minutes |-> <<"0", "0">>,
       seconds |-> <<"0", "0", ".", "0", "0">>],
      [hours |-> <<"0", "0">>, minutes |-> <<"0", "0">>,
       seconds |-> <<"1", "0", ".", "0", "0">>],
      [hours |-> <<"0", "1">>, minutes |-> <<"0", "2">>,
       seconds |-> <<"0", "3", ".", "5", "0">>],
      BadDuration }

Line(ss, se, td) ==
    [silence_start_match |-> ss, silence_end_match |-> se,
     total_duration_match |-> td]

\* a line is what the three searches of lines 77-79 find on it: nothing, one
\* match, or several matches on the same line
Lines ==
    { Line(None, None, None) }
    \cup { Line(Some(t), None, None) : t \in StartTokens }
    \cup { Line(None, Some(t), None) : t \in EndTokens }
    \cup { Line(None, None, Some(d)) : d \in DurationGroups }
    \cup { Line(Some(<<"3">>), Some(<<"2">>), None),
           Line(Some(<<"3">>), None, Some(BadDuration)) }

RECURSIVE SeqsUpTo(_, _)
SeqsUpTo(S, n) ==
    IF n = 0 THEN { <<>> }
    ELSE LET shorter == SeqsUpTo(S, n - 1) IN
         shorter \cup { Append(s, x) : s \in { t \in shorter : Len(t) = n - 1 }, x \in S }

Texts == SeqsUpTo(Lines, MaxLines)

(***************************************************************************)
(* The request and the exceptions.                                         *)
(***************************************************************************)
\* the keys lambda_handler reads from event["body"], in the order read
ParamNames == <<"bucket_name", "key_name", "noise_tolerance", "noise_duration">>

\* key_name values, as the components between the "/"
KeyNames == { <<"a", "x.wav">> }

FullBody(k) ==
    [bucket_name |-> "bucket", key_name |-> k,
     noise_tolerance |-> -36, noise_duration |-> 30]

\* event["body"]: every key present, or one of them missing
Events ==
    { FullBody(k) : k \in KeyNames }
    \cup { [x \in (DOMAIN FullBody(k)) \ {ParamNames[i]} |-> FullBody(k)[x]] :
             k \in KeyNames, i \in 1..Len(ParamNames) }

Exception(type, msg) == [type |-> type, msg |-> msg]

\* f"{type(e)}: {str(e)}"
Describe(e) == <<e.type, ": ", e.msg>>

\* f"/tmp/{key_name.split('/')[-1]}"
LocalPath(key_name) == <<"/tmp", key_name[Len(key_name)]>>

(***************************************************************************)
(* Pure parts of has_audio.                                                *)
(***************************************************************************)
\* Python's `x or default` on an optional float: None and 0.0 are falsy
OrDefault(x, default) ==
    IF x = None THEN default
    ELSE IF x[1] = 0 THEN default
    ELSE x[1]

\* hours * 3600 + minutes * 60 + seconds, in hundredths
TotalSeconds(hours, minutes, seconds) ==
    (hours * 3600 + minutes * 60) * 100 + seconds

\* the comparison without its "> 0"
FinishedWithNonSilenceAnyEnds(starts, ends) ==
    Len(starts) > Len(ends)

\* len(chunk_starts) > len(chunk_ends) > 0
FinishedWithNonSilence(starts, ends) ==
    Len(starts) > Len(ends) /\ Len(ends) > 0

Min(a, b) == IF a < b THEN a ELSE b

\* list(zip(starts, ends))
\* a pairing that keeps only the pairs whose start lies before their end
ZipOrdered(starts, ends) ==
    SelectSeq([i \in 1..(IF Len(starts) < Len(ends) THEN Len(starts) ELSE Len(ends))
                  |-> <<starts[i], ends[i]>>],
              LAMBDA p : p[1] < p[2])

Zip(starts, ends) ==
    [i \in 1..Min(Len(starts), Len(ends)) |-> <<starts[i], ends[i]>>]

(***************************************************************************)
(* Initial state: lambda_handler is entered with some event.               *)
(***************************************************************************)
InitHandler ==
    /\ pc = "params"
    /\ event \in Events
    /\ resp = [success |-> FALSE, noise_detected |-> FALSE, errors |-> None]
    /\ exc = None
    /\ fs = {}
    /\ file_name = None
    /\ returncode = None
    /\ output = <<>>
    /\ idx = 0
    /\ chunk_starts = <<>>
    /\ chunk_ends = <<>>
    /\ end_time = None
    /\ noise_detected = TRUE
    /\ ret = None
    /\ response = None

\* one invocation, no other call of has_audio and no other invocation
Init ==
    /\ InitHandler
    /\ calls = <<>>
    /\ conc = [inv |-> <<>>, tmp |-> <<>>]

(***************************************************************************)
(* Raising: the exception becomes the one in flight.  Raised inside the    *)
(* with-block it first passes s3_object ("unwind"), raised outside it goes *)
(* straight to the except clause.                                          *)
(***************************************************************************)
RaiseInWith(e) ==
    /\ exc' = Some(e)
    /\ pc' = "unwind"

RaiseOutsideWith(e) ==
    /\ exc' = Some(e)
    /\ pc' = "except"

(***************************************************************************)
(* lambda_handler, lines 126-129: read the four request parameters.        *)
(***************************************************************************)
ReadParams ==
    /\ pc = "params"
    /\ LET missing == {i \in 1..Len(ParamNames) : ParamNames[i] \notin DOMAIN event} IN
       IF missing = {}
       THEN /\ pc' = "download"
            /\ exc' = exc
       ELSE LET first == CHOOSE i \in missing : \A j \in missing : i <= j IN
            RaiseOutsideWith(Exception("KeyError", ParamNames[first]))
    /\ UNCHANGED <<event, resp, fs, file_name, returncode, output, idx,
                   chunk_starts, chunk_ends, end_time, noise_detected, ret,
                   response>>
    /\ UNCHANGED <<calls, conc>>

(***************************************************************************)
(* s3_object, lines 114-117: compute the local path and download to it;    *)
(* the download may fail, and then the generator never reaches its yield.  *)
(***************************************************************************)
Download ==
    /\ pc = "download"
    /\ file_name' = Some(LocalPath(event.key_name))
    /\ \E ok \in BOOLEAN :
         IF ok
         THEN /\ fs' = fs \cup {LocalPath(event.key_name)}
              /\ pc' = "ffmpeg"
              /\ exc' = exc
         ELSE /\ fs' = fs
              /\ RaiseOutsideWith(Exception("ClientError", "download_file"))
    /\ UNCHANGED <<event, resp, returncode, output, idx, chunk_starts,
                   chunk_ends, end_time, noise_detected, ret, response>>
    /\ UNCHANGED <<calls, conc>>

(***************************************************************************)
(* detect_silence, lines 37-59, and the initialisation of has_audio's      *)
(* locals, lines 70-75.  ffmpeg exits with some status and some stderr.    *)
(***************************************************************************)
\* the exit status left unchecked
ToolFailedNever(rc) == FALSE

\* p.returncode != 0
ToolFailed(rc) == rc # 0

DetectSilence ==
    /\ pc = "ffmpeg"
    /\ \E rc \in {0, 1}, text \in Texts :
         /\ returncode' = Some(rc)
         /\ IF ToolFailed(rc)
            THEN /\ RaiseInWith(Exception("FFmpegError", "FFMPEG Error. Check logs"))
                 /\ UNCHANGED output
            ELSE /\ output' = text
                 /\ pc' = "scan"
                 /\ exc' = exc
    /\ noise_detected' = TRUE
    /\ end_time' = None
    /\ chunk_starts' = <<>>
    /\ chunk_ends' = <<>>
    /\ idx' = 0
    /\ UNCHANGED <<event, resp, fs, file_name, ret, response>>
    /\ UNCHANGED <<calls, conc>>

(***************************************************************************)
(* has_audio, lines 76-91: one iteration of the for-loop.                  *)
(***************************************************************************)
\* the branch of the if/elif chain of lines 80-87 a line takes
Kind(line) ==
    IF line.silence_start_match # None THEN "SilenceStart"
    ELSE IF line.silence_end_match # None THEN "SilenceEnd"
    ELSE IF line.total_duration_match # None THEN "TotalDuration"
    ELSE "unrecognized"

\* the loop body with three independent ifs in place of the if/elif chain
ScanLineIndependentIfs ==
    /\ pc = "scan"
    /\ idx < Len(output)
    /\ LET line == output[idx + 1]
           start == line.silence_start_match
           end == line.silence_end_match
           total == line.total_duration_match
           starts0 == IF start # None /\ Len(chunk_starts) = 0
                      THEN Append(chunk_starts, OrDefault(Some(start_time), 0))
                      ELSE chunk_starts
       IN
       IF total # None /\ ParseFloat(total[1].seconds) = None
       THEN /\ RaiseInWith(Exception("ValueError", "float"))
            /\ UNCHANGED <<idx, chunk_starts, chunk_ends, end_time>>
       ELSE /\ chunk_ends' = IF start # None
                             THEN Append(chunk_ends, ParseFloat(start[1])[1])
                             ELSE chunk_ends
            /\ chunk_starts' = IF end # None
                               THEN Append(starts0, ParseFloat(end[1])[1])
                               ELSE starts0
            /\ end_time' = IF total # None
                           THEN Some(TotalSeconds(ParseInt(total[1].hours),
                                                  ParseInt(total[1].minutes),
                                                  ParseFloat(total[1].seconds)[1]))
                           ELSE end_time
            /\ idx' = idx + 1
            /\ UNCHANGED <<pc, exc>>
    /\ UNCHANGED <<event, resp, fs, file_name, returncode, output,
                   noise_detected, ret, response>>
    /\ UNCHANGED <<calls, conc>>

ScanLine ==
    /\ pc = "scan"
    /\ idx < Len(output)
    /\ LET line == output[idx + 1]
           silence_start_match == line.silence_start_match
           silence_end_match == line.silence_end_match
           total_duration_match == line.total_duration_match
       IN
       CASE Kind(line) = "SilenceStart" ->
            LET t == ParseFloat(silence_start_match[1]) IN
            IF t = None
            THEN /\ RaiseInWith(Exception("ValueError", "float"))
                 /\ UNCHANGED <<idx, chunk_starts, chunk_ends, end_time>>
            ELSE /\ chunk_ends' = Append(chunk_ends, t[1])
                 /\ chunk_starts' =
                        IF Len(chunk_starts) = 0
                        THEN Append(chunk_starts, OrDefault(Some(start_time), 0))
                        ELSE chunk_starts
                 /\ idx' = idx + 1
                 /\ UNCHANGED <<pc, exc, end_time>>
         [] Kind(line) = "SilenceEnd" ->
            LET t == ParseFloat(silence_end_match[1]) IN
            IF t = None
            THEN /\ RaiseInWith(Exception("ValueError", "float"))
                 /\ UNCHANGED <<idx, chunk_starts, chunk_ends, end_time>>
            ELSE /\ chunk_starts' = Append(chunk_starts, t[1])
                 /\ idx' = idx + 1
                 /\ UNCHANGED <<pc, exc, chunk_ends, end_time>>
         [] Kind(line) = "TotalDuration" ->
            LET hours == ParseInt(total_duration_match[1].hours)
                minutes == ParseInt(total_duration_match[1].minutes)
                seconds == ParseFloat(total_duration_match[1].seconds)
            IN
            IF seconds = None
            THEN /\ RaiseInWith(Exception("ValueError", "float"))
                 /\ UNCHANGED <<idx, chunk_starts, chunk_ends, end_time>>
            ELSE /\ end_time' = Some(TotalSeconds(hours, minutes, seconds[1]))
                 /\ idx' = idx + 1
                 /\ UNCHANGED <<pc, exc, chunk_starts, chunk_ends>>
         [] Kind(line) = "unrecognized" ->
            /\ idx' = idx + 1
            /\ UNCHANGED <<pc, exc, chunk_starts, chunk_ends, end_time>>
    /\ UNCHANGED <<event, resp, fs, file_name, returncode, output,
                   noise_detected, ret, response>>
    /\ UNCHANGED <<calls, conc>>

(***************************************************************************)
(* has_audio, lines 93-104: the loop is over.  "No silence found" gives    *)
(* chunk_starts its default; the last chunk is closed or noise_detected is *)
(* cleared; the pairs and the flag are returned.                           *)
(***************************************************************************)
FinishScan ==
    /\ pc = "scan"
    /\ idx = Len(output)
    /\ LET starts == IF Len(chunk_starts) = 0
                     THEN Append(chunk_starts, start_time)
                     ELSE chunk_starts
           closing == FinishedWithNonSilence(starts, chunk_ends)
           ends == IF closing
                   THEN Append(chunk_ends, OrDefault(end_time, Sentinel))
                   ELSE chunk_ends
           detected == IF closing THEN noise_detected ELSE FALSE
       IN /\ chunk_starts' = starts
          /\ chunk_ends' = ends
          /\ noise_detected' = detected
          /\ ret' = Some(<<Zip(starts, ends), detected>>)
    /\ pc' = "exit_with"
    /\ UNCHANGED <<event, resp, exc, fs, file_name, returncode, output, idx,
                   end_time, response>>
    /\ UNCHANGED <<calls, conc>>

(***************************************************************************)
(* s3_object, line 118: the with-block ended normally, the generator       *)
(* resumes after its yield and removes the file.                           *)
(***************************************************************************)
ExitWith ==
    /\ pc = "exit_with"
    /\ fs' = fs \ {file_name[1]}
    /\ pc' = "set_resp"
    /\ UNCHANGED <<event, resp, exc, file_name, returncode, output, idx,
                   chunk_starts, chunk_ends, end_time, noise_detected, ret,
                   response>>
    /\ UNCHANGED <<calls, conc>>

(***************************************************************************)
(* s3_object, lines 117-118, when the with-block raised: the exception is  *)
(* thrown into the generator at its yield; the yield is in no try/finally, *)
(* so the generator ends there and line 118 does not run.                  *)
(***************************************************************************)
Unwind ==
    /\ pc = "unwind"
    /\ pc' = "except"
    /\ UNCHANGED <<event, resp, exc, fs, file_name, returncode, output, idx,
                   chunk_starts, chunk_ends, end_time, noise_detected, ret,
                   response>>
    /\ UNCHANGED <<calls, conc>>

(***************************************************************************)
(* lambda_handler, lines 132-135: record the outcome.                      *)
(***************************************************************************)
\* lines 132-134 without line 135
SetRespNoSuccess ==
    /\ pc = "set_resp"
    /\ resp' = [resp EXCEPT !.noise_detected = ret[1][2]]
    /\ pc' = "return"
    /\ UNCHANGED <<event, exc, fs, file_name, returncode, output, idx,
                   chunk_starts, chunk_ends, end_time, noise_detected, ret,
                   response>>
    /\ UNCHANGED <<calls, conc>>

SetResp ==
    /\ pc = "set_resp"
    /\ resp' = [resp EXCEPT !.noise_detected = ret[1][2], !.success = TRUE]
    /\ pc' = "return"
    /\ UNCHANGED <<event, exc, fs, file_name, returncode, output, idx,
                   chunk_starts, chunk_ends, end_time, noise_detected, ret,
                   response>>
    /\ UNCHANGED <<calls, conc>>

(***************************************************************************)
(* lambda_handler, lines 136-137: except Exception as e.                   *)
(***************************************************************************)
\* except FFmpegError in place of except Exception
CaughtFFmpegOnly(e) == e.type = "FFmpegError"

\* every exception the body raises is an instance of Exception
Caught(e) == e.type \in {"KeyError", "ClientError", "FFmpegError", "ValueError"}

Except ==
    /\ pc = "except"
    /\ IF Caught(exc[1])
       THEN /\ resp' = ("error" :> Describe(exc[1])) @@ resp
            /\ pc' = "return"
       ELSE /\ pc' = "propagated"
            /\ UNCHANGED resp
    /\ UNCHANGED <<event, exc, fs, file_name, returncode, output, idx,
                   chunk_starts, chunk_ends, end_time, noise_detected, ret,
                   response>>
    /\ UNCHANGED <<calls, conc>>

(***************************************************************************)
(* lambda_handler, line 139.                                               *)
(***************************************************************************)
Return ==
    /\ pc = "return"
    /\ response' = Some([statusCode |-> 200, data |-> resp])
    /\ pc' = "done"
    /\ UNCHANGED <<event, resp, exc, fs, file_name, returncode, output, idx,
                   chunk_starts, chunk_ends, end_time, noise_detected, ret>>
    /\ UNCHANGED <<calls, conc>>

Next ==
    \/ ReadParams
    \/ Download
    \/ DetectSilence
    \/ ScanLine
    \/ FinishScan
    \/ ExitWith
    \/ Unwind
    \/ SetResp
    \/ Except
    \/ Return

Spec == Init /\ [][Next]_vars

TypeOK ==
    /\ pc \in {"params", "download", "ffmpeg", "scan", "exit_with", "unwind", "set_resp", "except", "return", "done",
               "propagated"}
    /\ idx \in 0..Len(output)
    /\ Len(output) <= MaxLines

(***************************************************************************)
(* Vocabulary of the claims.                                               *)
(***************************************************************************)
\* has_audio was entered and its post-loop code (lines 93-104) runs in this step
Finishing == pc = "scan" /\ pc' = "exit_with"

\* the positions of the total-duration markers of a text
Markers(text) == {i \in 1..Len(text) : Kind(text[i]) = "TotalDuration"}

\* hours*3600 + minutes*60 + seconds of a well-formed marker line
MarkerValue(line) ==
    TotalSeconds(ParseInt(line.total_duration_match[1].hours),
                 ParseInt(line.total_duration_match[1].minutes),
                 ParseFloat(line.total_duration_match[1].seconds)[1])

\* the value of the last marker of a text that holds one
LastMarkerValue(text) ==
    MarkerValue(text[CHOOSE i \in Markers(text) : \A j \in Markers(text) : j <= i])

NoSilenceLines(text) ==
    \A i \in 1..Len(text) : Kind(text[i]) \in {"TotalDuration", "unrecognized"}

\* the handler returned after ffmpeg exited with status 0
ParsedRun == pc = "done" /\ returncode = Some(0)

(***************************************************************************)
(* C1: for every text without silence-start and silence-end lines,         *)
(* has_audio returns exactly one interval (0.0, D) and the flag true, D    *)
(* being the last total-duration marker if one was seen and 1e7 otherwise. *)
(* The code returns no interval and the flag false for such a text.        *)
(***************************************************************************)
C1_NoSilenceGivesWholeFile ==
    ParsedRun /\ NoSilenceLines(output) =>
        /\ ret # None
        /\ ret[1] = << << <<0, IF Markers(output) = {} THEN Sentinel
                               ELSE LastMarkerValue(output)>> >>, TRUE >>

(***************************************************************************)
(* C2: when chunk_starts and chunk_ends have equal length at the           *)
(* comparison of line 97, has_audio appends no closing end and returns the *)
(* positional pairs with the flag true.  The code returns the flag false.  *)
(***************************************************************************)
C2_EqualLengthsResolved ==
    [][Finishing /\ Len(chunk_starts') = Len(chunk_ends) =>
          /\ chunk_ends' = chunk_ends
          /\ ret' = Some(<<Zip(chunk_starts', chunk_ends), TRUE>>)]_vars

(***************************************************************************)
(* C3: when len(chunk_starts) > len(chunk_ends) > 0 after the scan,        *)
(* has_audio appends exactly one closing end and returns the flag true;    *)
(* the appended end is the value of the last marker whenever a marker was  *)
(* observed, whatever its value, and 1e7 only when none was.  The code     *)
(* appends 1e7 when the last marker is 00:00:00.00.                        *)
(***************************************************************************)
C3_ClosingEndIsDuration ==
    [][Finishing /\ Len(chunk_starts') > Len(chunk_ends) /\ Len(chunk_ends) > 0 =>
          /\ chunk_ends' = Append(chunk_ends,
                                  IF end_time = None THEN Sentinel ELSE end_time[1])
          /\ ret'[1][2] = TRUE]_vars

C5_ParsingNeverRaises ==
    returncode = Some(0) =>
        /\ exc = None
        /\ pc = "done" => ret # None

(***************************************************************************)
(* C6: has_audio returns the flag true if and only if every start opened   *)
(* during the scan is paired with an end in the returned list.  The code   *)
(* returns false for starts = [0.0], ends = [3.0], where the one start is  *)
(* paired, and true with a start left unpaired after two silence ends.     *)
(***************************************************************************)
C6_ResolvedIffAllPaired ==
    ret # None => (ret[1][2] <=> Len(ret[1][1]) = Len(chunk_starts))

(***************************************************************************)
(* C7: whenever the file was downloaded, the local copy is removed before  *)
(* lambda_handler returns, on success and on failure.  The code leaves the *)
(* file when the with-block raises.                                        *)
(***************************************************************************)
C7_LocalCopyRemoved ==
    pc = "done" /\ file_name # None => file_name[1] \notin fs

(***************************************************************************)
(* C8: a non-zero exit status of ffmpeg aborts the analysis before any     *)
(* line is parsed and gives a response with success false and an error     *)
(* description; a successful run whose flag is false gives success true,   *)
(* noise_detected false and no error description, so the two differ.       *)
(***************************************************************************)
C8_ToolFailureDistinct ==
    /\ returncode # None /\ returncode # Some(0) =>
           idx = 0 /\ chunk_starts = <<>> /\ chunk_ends = <<>> /\ ret = None
    /\ pc = "done" /\ returncode # None /\ returncode # Some(0) =>
           /\ response[1].data.success = FALSE
           /\ "error" \in DOMAIN response[1].data
    /\ pc = "done" /\ ret # None /\ ret[1][2] = FALSE =>
           /\ response[1].data.success = TRUE
           /\ response[1].data.noise_detected = FALSE
           /\ response[1].data.errors = None
           /\ "error" \notin DOMAIN response[1].data

\* the handler returned after ffmpeg exited with status 1
C8_Witness ==
    /\ pc = "done"
    /\ returncode = Some(1)
    /\ response[1].data.success = FALSE
    /\ response[1].data.error = <<"FFmpegError", ": ", "FFMPEG Error. Check logs">>

(***************************************************************************)
(* C9: lambda_handler never propagates an exception: after a failure at    *)
(* any step it returns a response whose success is false and which carries *)
(* the error description, and success is true only when every step         *)
(* completed without failure.                                              *)
(***************************************************************************)
C9_NeverPropagates ==
    /\ pc # "propagated"
    /\ pc = "done" =>
           /\ exc # None =>
                  /\ response[1].data.success = FALSE
                  /\ "error" \in DOMAIN response[1].data
                  /\ response[1].data.error = Describe(exc[1])
           /\ response[1].data.success = TRUE =>
                  exc = None /\ returncode = Some(0) /\ ret # None

\* the handler returned after float() raised during the scan
C9_Witness ==
    /\ pc = "done"
    /\ exc # None
    /\ exc[1].type = "ValueError"
    /\ response[1].data.success = FALSE
    /\ "error" \in DOMAIN response[1].data

(***************************************************************************)
(* C10: with several total-duration markers in the text, the end that      *)
(* closes the final interval is hours*3600 + minutes*60 + seconds of the   *)
(* last marker in line order.  The code closes with 1e7 when the last      *)
(* marker is 00:00:00.00.                                                  *)
(***************************************************************************)
C10_LastMarkerWins ==
    [][Finishing /\ Len(chunk_ends') = Len(chunk_ends) + 1
                 /\ Cardinality(Markers(output)) >= 2 =>
          chunk_ends'[Len(chunk_ends')] = LastMarkerValue(output)]_vars

(***************************************************************************)
(* C11: when the scan leaves more ends than starts (silence_start: 3 twice *)
(* gives starts = [0.0], ends = [3.0, 3.0]), has_audio clamps the pairing  *)
(* to the shorter sequence and returns the flag true because               *)
(* len(ends) > 0.  The code returns [(0.0, 3.0)] with the flag false.      *)
(***************************************************************************)
C11_MoreEndsResolved ==
    [][Finishing /\ Len(chunk_ends) > Len(chunk_starts') =>
          /\ Len(ret'[1][1]) = Len(chunk_starts')
          /\ \A i \in 1..Len(chunk_starts') :
                 ret'[1][1][i] = <<chunk_starts'[i], chunk_ends[i]>>
          /\ ret'[1][2] = TRUE]_vars

(***************************************************************************)
(* The parsing of has_audio (lines 70-104) as a function of the text, for  *)
(* calls made one after the other in the same process.                     *)
(***************************************************************************)
MaxCallLines == 3

\* the lists and end_time kept from the call before, as module-level state
StaleLocals(previous) ==
    IF previous = None
    THEN [chunk_starts |-> <<>>, chunk_ends |-> <<>>, end_time |-> None,
          noise_detected |-> TRUE, raised |-> FALSE]
    ELSE [previous[1] EXCEPT !.noise_detected = TRUE, !.raised = FALSE]

\* every call binds its locals anew, whatever an earlier call left
\* (lines 70-75); raised tells that float() raised ValueError
FreshLocals(previous) ==
    [chunk_starts |-> <<>>, chunk_ends |-> <<>>, end_time |-> None,
     noise_detected |-> TRUE, raised |-> FALSE]

\* the loop without the assumed start of lines 82-84
ScanStepNoAssumedStart(l, line) ==
    CASE Kind(line) = "SilenceStart" ->
         [l EXCEPT !.chunk_ends = Append(@, ParseFloat(line.silence_start_match[1])[1])]
      [] Kind(line) = "SilenceEnd" ->
         [l EXCEPT !.chunk_starts = Append(@, ParseFloat(line.silence_end_match[1])[1])]
      [] Kind(line) = "TotalDuration" ->
         LET seconds == ParseFloat(line.total_duration_match[1].seconds) IN
         IF seconds = None THEN [l EXCEPT !.raised = TRUE]
         ELSE [l EXCEPT !.end_time =
                   Some(TotalSeconds(ParseInt(line.total_duration_match[1].hours),
                                     ParseInt(line.total_duration_match[1].minutes),
                                     seconds[1]))]
      [] Kind(line) = "unrecognized" -> l

\* one iteration of the for-loop, lines 77-91
ScanStep(l, line) ==
    CASE Kind(line) = "SilenceStart" ->
         LET t == ParseFloat(line.silence_start_match[1]) IN
         IF t = None THEN [l EXCEPT !.raised = TRUE]
         ELSE [l EXCEPT !.chunk_ends = Append(@, t[1]),
                        !.chunk_starts =
                            IF Len(@) = 0
                            THEN Append(@, OrDefault(Some(start_time), 0))
                            ELSE @]
      [] Kind(line) = "SilenceEnd" ->
         LET t == ParseFloat(line.silence_end_match[1]) IN
         IF t = None THEN [l EXCEPT !.raised = TRUE]
         ELSE [l EXCEPT !.chunk_starts = Append(@, t[1])]
      [] Kind(line) = "TotalDuration" ->
         LET hours == ParseInt(line.total_duration_match[1].hours)
             minutes == ParseInt(line.total_duration_match[1].minutes)
             seconds == ParseFloat(line.total_duration_match[1].seconds)
         IN
         IF seconds = None THEN [l EXCEPT !.raised = TRUE]
         ELSE [l EXCEPT !.end_time = Some(TotalSeconds(hours, minutes, seconds[1]))]
      [] Kind(line) = "unrecognized" -> l

RECURSIVE ScanAll(_, _)
\* the for-loop of line 76; an exception ends it
ScanAll(l, text) ==
    IF Len(text) = 0 THEN l
    ELSE LET before == ScanAll(l, SubSeq(text, 1, Len(text) - 1)) IN
         IF before.raised THEN before ELSE ScanStep(before, text[Len(text)])

\* lines 93-104 on the locals the loop left
Finish(l) ==
    LET starts == IF Len(l.chunk_starts) = 0
                  THEN Append(l.chunk_starts, start_time)
                  ELSE l.chunk_starts
        closing == FinishedWithNonSilence(starts, l.chunk_ends)
        ends == IF closing
                THEN Append(l.chunk_ends, OrDefault(l.end_time, Sentinel))
                ELSE l.chunk_ends
        detected == IF closing THEN l.noise_detected ELSE FALSE
    IN [locals |-> [l EXCEPT !.chunk_starts = starts, !.chunk_ends = ends,
                             !.noise_detected = detected],
        result |-> Some(<<Zip(starts, ends), detected>>)]

\* one call on a text: the text, the locals it left and what it returned
\* (None when it raised)
Parse(previous, text) ==
    LET l == ScanAll(FreshLocals(previous), text)
        end == IF l.raised THEN [locals |-> l, result |-> None] ELSE Finish(l)
    IN [text |-> text, locals |-> end.locals, result |-> end.result]

\* the texts with the lines of a text in any order
Reorderings(text) ==
    { [i \in 1..Len(text) |-> text[p[i]]] : p \in Permutations(1..Len(text)) }

\* the locals of the latest call, None before the first
LastLocals == IF calls = <<>> THEN None ELSE Some(calls[Len(calls)].locals)

InitCalls == Init /\ event \in { FullBody(k) : k \in KeyNames }

\* a first call on any text
FirstCall ==
    /\ calls = <<>>
    /\ \E text \in SeqsUpTo(Lines, MaxCallLines) :
         calls' = Append(calls, Parse(LastLocals, text))
    /\ UNCHANGED <<handler, conc>>

\* a second call, on the same lines in some order or on another short text
OtherCall ==
    /\ Len(calls) = 1
    /\ \E text \in Reorderings(calls[1].text) \cup SeqsUpTo(Lines, 1) :
         calls' = Append(calls, Parse(LastLocals, text))
    /\ UNCHANGED <<handler, conc>>

\* a third call, on the text of the first
RepeatCall ==
    /\ Len(calls) = 2
    /\ calls' = Append(calls, Parse(LastLocals, calls[1].text))
    /\ UNCHANGED <<handler, conc>>

NextCalls == FirstCall \/ OtherCall \/ RepeatCall

SpecCalls == InitCalls /\ [][NextCalls]_vars

\* the handler's has_audio and the function of the text agree
ParseAgrees ==
    /\ ret # None => ret = Parse(None, output).result
    /\ pc = "done" /\ returncode = Some(0) /\ ret = None =>
           Parse(None, output).result = None

(***************************************************************************)
(* Vocabulary of the claims on successive calls.                           *)
(***************************************************************************)
RECURSIVE SilenceOrder(_)
\* the kinds of the silence lines of a text, in line order
SilenceOrder(text) ==
    IF Len(text) = 0 THEN <<>>
    ELSE LET before == SilenceOrder(SubSeq(text, 1, Len(text) - 1))
             kind == Kind(text[Len(text)])
         IN IF kind \in {"SilenceStart", "SilenceEnd"}
            THEN Append(before, kind) ELSE before

\* the first two calls were made on the same lines and both returned
TwoReturnedOrders ==
    /\ Len(calls) >= 2
    /\ calls[2].text \in Reorderings(calls[1].text)
    /\ calls[1].result # None
    /\ calls[2].result # None

\* no silence_end line of the text carries the time 0
NoZeroEnd(text) ==
    \A i \in 1..Len(text) :
        Kind(text[i]) = "SilenceEnd" =>
            ParseFloat(text[i].silence_end_match[1]) # Some(0)

(***************************************************************************)
(* C12, as claimed: two texts with the same recognized lines and a         *)
(* different interleaving of silence-start and silence-end lines give      *)
(* different outputs.  silence_end 2, silence_end 4.25, silence_start 3    *)
(* and silence_end 2, silence_start 3, silence_end 4.25 give the same.     *)
(***************************************************************************)
C12_OrderSensitive ==
    TwoReturnedOrders /\ SilenceOrder(calls[1].text) # SilenceOrder(calls[2].text) =>
        calls[1].result # calls[2].result

(***************************************************************************)
(* C12, amended: two texts with the same lines, on which has_audio         *)
(* returns and whose silence_end times are not 0, give different outputs   *)
(* whenever the first silence line is a silence start in one and a         *)
(* silence end in the other.                                               *)
(***************************************************************************)
C12_FirstSilenceKindSensitive ==
    /\ TwoReturnedOrders
    /\ NoZeroEnd(calls[1].text)
    /\ SilenceOrder(calls[1].text) # <<>>
    /\ SilenceOrder(calls[1].text)[1] # SilenceOrder(calls[2].text)[1]
    => calls[1].result # calls[2].result

\* silence_start 3, silence_end 2 and then the same lines the other way round
C12_Witness ==
    /\ Len(calls) >= 2
    /\ calls[1].text = <<Line(Some(<<"3">>), None, None), Line(None, Some(<<"2">>), None)>>
    /\ calls[2].text = <<Line(None, Some(<<"2">>), None), Line(Some(<<"3">>), None, None)>>
    /\ calls[1].result = Some(<< << <<0, 300>>, <<200, Sentinel>> >>, TRUE >>)
    /\ calls[2].result = Some(<< << <<200, 300>> >>, FALSE >>)

ConcKeyNames == { <<"a", "x.wav">>, <<"b", "x.wav">>, <<"b", "y.wav">> }

Invocation(k) ==
    [pc |-> "download", key_name |-> k, file_name |-> None, analysed |-> None,
     exc |-> None, success |-> FALSE]

InitConc ==
    /\ InitHandler
    /\ event \in { FullBody(k) : k \in KeyNames }
    /\ calls = <<>>
    /\ \E k1, k2 \in ConcKeyNames :
         conc = [inv |-> <<Invocation(k1), Invocation(k2)>>, tmp |-> <<>>]

\* s3_object, lines 114-117: download_file writes the object to file_name,
\* over whatever is there
CDownload(i) ==
    /\ conc.inv[i].pc = "download"
    /\ LET path == LocalPath(conc.inv[i].key_name) IN
       \E ok \in BOOLEAN :
         IF ok
         THEN conc' = [conc EXCEPT !.inv[i].file_name = Some(path),
                                   !.inv[i].pc = "ffmpeg",
                                   !.tmp = (path :> conc.inv[i].key_name) @@ @]
         ELSE conc' = [conc EXCEPT !.inv[i].file_name = Some(path),
                                   !.inv[i].exc = Some(Exception("ClientError", "download_file")),
                                   !.inv[i].pc = "except"]
    /\ UNCHANGED <<handler, calls>>

\* has_audio, line 132: ffmpeg reads the file at file_name; it exits with a
\* non-zero status when the file is gone, and may do so anyway; parsing may raise
CHasAudio(i) ==
    /\ conc.inv[i].pc = "ffmpeg"
    /\ LET path == conc.inv[i].file_name[1] IN
       \E outcome \in {"returns", "FFmpegError", "ValueError"} :
         IF path \notin DOMAIN conc.tmp \/ outcome = "FFmpegError"
         THEN conc' = [conc EXCEPT !.inv[i].exc =
                                       Some(Exception("FFmpegError", "FFMPEG Error. Check logs")),
                                   !.inv[i].pc = "unwind"]
         ELSE IF outcome = "ValueError"
         THEN conc' = [conc EXCEPT !.inv[i].analysed = Some(conc.tmp[path]),
                                   !.inv[i].exc = Some(Exception("ValueError", "float")),
                                   !.inv[i].pc = "unwind"]
         ELSE conc' = [conc EXCEPT !.inv[i].analysed = Some(conc.tmp[path]),
                                   !.inv[i].pc = "exit_with"]
    /\ UNCHANGED <<handler, calls>>

\* s3_object, line 118: os.remove(file_name) raises when the file is gone
CExitWith(i) ==
    /\ conc.inv[i].pc = "exit_with"
    /\ LET path == conc.inv[i].file_name[1] IN
       IF path \in DOMAIN conc.tmp
       THEN conc' = [conc EXCEPT !.tmp = [p \in (DOMAIN @) \ {path} |-> @[p]],
                                 !.inv[i].pc = "set_resp"]
       ELSE conc' = [conc EXCEPT !.inv[i].exc =
                                     Some(Exception("FileNotFoundError", "remove")),
                                 !.inv[i].pc = "except"]
    /\ UNCHANGED <<handler, calls>>

\* s3_object, lines 117-118, when the with-block raised: line 118 does not run
CUnwind(i) ==
    /\ conc.inv[i].pc = "unwind"
    /\ conc' = [conc EXCEPT !.inv[i].pc = "except"]
    /\ UNCHANGED <<handler, calls>>

\* lambda_handler, lines 134-139
CRespond(i) ==
    /\ conc.inv[i].pc \in {"set_resp", "except"}
    /\ conc' = [conc EXCEPT !.inv[i].success = (conc.inv[i].pc = "set_resp"),
                            !.inv[i].pc = "done"]
    /\ UNCHANGED <<handler, calls>>

NextConc ==
    \E i \in {1, 2} :
        \/ CDownload(i)
        \/ CHasAudio(i)
        \/ CExitWith(i)
        \/ CUnwind(i)
        \/ CRespond(i)

SpecConc == InitConc /\ [][NextConc]_vars

(***************************************************************************)
(* C13: two concurrent invocations for differently named input files use   *)
(* distinct local paths, so neither overwrites, analyses or deletes the    *)
(* other's local file.  For a/x.wav and b/x.wav both use /tmp/x.wav.       *)
(***************************************************************************)
C13_DistinctKeysDistinctFiles ==
    \A i, j \in DOMAIN conc.inv :
        i # j /\ conc.inv[i].key_name # conc.inv[j].key_name =>
            /\ conc.inv[i].file_name # None /\ conc.inv[j].file_name # None =>
                   conc.inv[i].file_name # conc.inv[j].file_name
            /\ conc.inv[i].pc \in {"ffmpeg", "exit_with"} =>
                   /\ conc.inv[i].file_name[1] \in DOMAIN conc.tmp
                   /\ conc.tmp[conc.inv[i].file_name[1]] = conc.inv[i].key_name
            /\ conc.inv[i].analysed # None =>
                   conc.inv[i].analysed = Some(conc.inv[i].key_name)

(***************************************************************************)
(* Vocabulary of the claims on one iteration of the loop.                  *)
(***************************************************************************)
\* the loop consumes line idx + 1 in this step
Consuming == pc = "scan" /\ idx < Len(output) /\ idx' = idx + 1

\* the transition of a SilenceStart(t) line
StartTransition(t) ==
    /\ chunk_ends' = Append(chunk_ends, t)
    /\ chunk_starts' = IF chunk_starts = <<>> THEN <<0>> ELSE chunk_starts
    /\ end_time' = end_time

\* the transition of a SilenceEnd(t) line
EndTransition(t) ==
    /\ chunk_starts' = Append(chunk_starts, t)
    /\ chunk_ends' = chunk_ends
    /\ end_time' = end_time

\* the transition of a duration marker of d hundredths
DurationTransition(d) ==
    /\ end_time' = Some(d)
    /\ chunk_starts' = chunk_starts
    /\ chunk_ends' = chunk_ends

NoTransition ==
    /\ chunk_starts' = chunk_starts
    /\ chunk_ends' = chunk_ends
    /\ end_time' = end_time

(***************************************************************************)
(* C15: per line, a SilenceStart(t) line appends t to ends and 0.0 to      *)
(* starts if and only if starts was empty; a SilenceEnd(t) line appends t  *)
(* to starts and leaves ends; a duration marker changes only the file      *)
(* duration; an unrecognized line changes nothing; a line triggers at most *)
(* one of these transitions; elements already in starts and ends stay.     *)
(* A line is of a kind when it matches that kind's pattern and no other.   *)
(***************************************************************************)
C15_LineTransitions ==
    [][Consuming =>
          LET line == output[idx + 1]
              start == line.silence_start_match
              end == line.silence_end_match
              total == line.total_duration_match
          IN
          /\ start # None /\ end = None /\ total = None =>
                 StartTransition(ParseFloat(start[1])[1])
          /\ start = None /\ end # None /\ total = None =>
                 EndTransition(ParseFloat(end[1])[1])
          /\ start = None /\ end = None /\ total # None =>
                 DurationTransition(MarkerValue(line))
          /\ start = None /\ end = None /\ total = None => NoTransition
          /\ \/ start # None /\ StartTransition(ParseFloat(start[1])[1])
             \/ end # None /\ EndTransition(ParseFloat(end[1])[1])
             \/ total # None /\ DurationTransition(MarkerValue(line))
             \/ NoTransition
          /\ SubSeq(chunk_starts', 1, Len(chunk_starts)) = chunk_starts
          /\ SubSeq(chunk_ends', 1, Len(chunk_ends)) = chunk_ends]_vars

\* the loop has consumed a line that matches two patterns, after a
\* silence end, a marker and an unmatched line
C15_Witness ==
    /\ pc = "scan"
    /\ idx = 4
    /\ Kind(output[1]) = "SilenceEnd"
    /\ Kind(output[2]) = "TotalDuration"
    /\ Kind(output[3]) = "unrecognized"
    /\ output[4] = Line(Some(<<"3">>), Some(<<"2">>), None)
    /\ chunk_starts = <<200>>
    /\ chunk_ends = <<300>>
    /\ end_time # None

(***************************************************************************)
(* C16: the returned interval list is the positional pairing of the final  *)
(* starts and ends: its length is min(len(starts), len(ends)) and its i-th *)
(* element is (starts[i], ends[i]); what lies beyond the shorter length is *)
(* dropped, and values are neither compared nor sorted, so an interval     *)
(* with start >= end can be returned.                                      *)
(***************************************************************************)
C16_PositionalPairing ==
    ret # None =>
        /\ Len(ret[1][1]) <= Len(chunk_starts)
        /\ Len(ret[1][1]) <= Len(chunk_ends)
        /\ Len(ret[1][1]) \in {Len(chunk_starts), Len(chunk_ends)}
        /\ \A i \in 1..Len(ret[1][1]) :
               ret[1][1][i] = <<chunk_starts[i], chunk_ends[i]>>

\* has_audio returned an interval that ends before it starts and dropped
\* an end that had no start to pair with
C16_Witness ==
    /\ ret # None
    /\ Len(chunk_ends) > Len(ret[1][1])
    /\ \E i \in 1..Len(ret[1][1]) : ret[1][1][i][1] >= ret[1][1][i][2]

\* the end that closes the last interval: the value of the last duration
\* marker when there is one and it is not 0.0, and 1e7 otherwise
ClosingValue(text) ==
    IF Markers(text) # {} /\ LastMarkerValue(text) # 0
    THEN LastMarkerValue(text)
    ELSE Sentinel

C18_ResponseShape ==
    pc = "done" =>
        /\ response # None
        /\ response[1].statusCode = 200
        /\ response[1].data.noise_detected = TRUE =>
               response[1].data.success = TRUE
        /\ exc # None => response[1].data.noise_detected = FALSE
        /\ response[1].data.success = FALSE =>
               response[1].data.noise_detected = FALSE

\* the handler answered that noise was detected
C18_Witness ==
    /\ pc = "done"
    /\ exc = None
    /\ response[1].statusCode = 200
    /\ response[1].data.noise_detected = TRUE
    /\ response[1].data.success = TRUE

====
